---- MODULE Spec2Model ----
(***************************************************************************)
(* Model of the Express/Effect server of the workshop repository:          *)
(*   - SqlClient  : scoped service owning the sqlite connection            *)
(*   - ExpressApp : scoped service owning the http server and addRoute     *)
(*   - addRoute   : one fiber per request, forked in a FiberSet tied to    *)
(*                  the ExpressApp scope, finalized by Effect.onExit and   *)
(*                  interrupted by the request's "close" event             *)
(*                                                                         *)
(* Library semantics relied on (effect, express, node http):               *)
(*   - runFork starts the fiber synchronously; it runs until its first     *)
(*     asynchronous suspension before runFork returns.                     *)
(*   - unsafeInterruptAsFork enqueues an interrupt signal; an interruptible*)
(*     suspended fiber handles it on its next turn and exits with an       *)
(*     interrupt-only cause; a finished fiber ignores it.                  *)
(*   - Effect.onExit runs its callback uninterruptibly, once, with the     *)
(*     exit of the wrapped effect, before the fiber completes.             *)
(*   - Closing a FiberSet marks it closed, interrupts the fibers it holds  *)
(*     and awaits them; runFork on a closed FiberSet starts nothing.       *)
(*   - A scope runs its finalizers in reverse order of registration.       *)
(***************************************************************************)
EXTENDS Integers, Sequences, FiniteSets, TLC

\* ------------------------------------------------------------------ bounds
NumRequests == 2      \* requests that arrive during one run of the server

Reqs == 1..NumRequests

\* ------------------------------------------------------------ route table
\* A handler is the sequence of its effects:
\*   "use"      sql.query / sql.use, a fault becomes a SqlError failure
\*   "useCatch" sql.query with the catchAll of GET /users
\*   "send"     res.json(..) / res.status(..).end(): status line and end
\*   "write"    res.write(..): status line sent, stream left open
\*   "await"    an asynchronous suspension point
\*   "never"    a suspension that is never resumed
\*   "throw"    a thrown fault (defect)    "fail"  a typed failure
\* The first three routes are the routes of the program; the others are
\* handlers addRoute accepts as well (it takes any Effect).
RouteTable ==
  << [method |-> "get",    path |-> "/users",     prog |-> <<"useCatch", "send">>],
     [method |-> "post",   path |-> "/users",     prog |-> <<"use", "use", "send">>],
     [method |-> "get",    path |-> "/users/:id", prog |-> <<"use", "send">>],
     [method |-> "put",    path |-> "/crash",     prog |-> <<"use", "throw">>],
     [method |-> "put",    path |-> "/late",      prog |-> <<"send", "await", "throw">>],
     [method |-> "put",    path |-> "/partial",   prog |-> <<"write", "await", "fail">>],
     [method |-> "delete", path |-> "/empty",     prog |-> <<"await">>],
     [method |-> "delete", path |-> "/hang",      prog |-> <<"never">>] >>

Routes == 1..Len(RouteTable)

\* ------------------------------------------------------------------ state
VARIABLES
  phase,      \* "starting" | "serving" | "closing" | "closed": Layer.launch
  sqlState,   \* "unbuilt" | "ready" | "failed": the SqlClient layer
  dbState,    \* "none" | "open" | "closed": the sqlite connection
  dbOpens,    \* successful new Sqlite(..)
  dbCloses,   \* db.close() calls
  expressState, \* "unbuilt" | "built": the ExpressApp layer
  listening,  \* the http server accepts requests
  outerFin,   \* finalizers of the launch scope, in registration order
  closing,    \* finalizers still to run while the scope closes
  setState,   \* per route: "none" | "open" | "closing" | "closed" FiberSet
  req,        \* per request: its fiber, its response and its log entries
  sq,         \* the SqlClient programs: connection, table, results, stream
  ev          \* the click-stream program: targets, listeners, stream

vars == << phase, sqlState, dbState, dbOpens, dbCloses, expressState,
           listening, outerFin, closing, setState, req, sq, ev >>

IdleReq ==
  [ st |-> "idle", route |-> 0, pc |-> 1, exit |-> "none", intr |-> FALSE,
    resumed |-> FALSE, earlyCancel |-> FALSE,
    headersSent |-> FALSE, statusCode |-> 0, writableEnded |-> FALSE,
    statusWrites |-> 0, endCalls |-> 0,
    sentBy |-> "none", endedBy |-> "none", hookRuns |-> 0,
    logs |-> <<>>, closeFired |-> 0, afterFailure |-> FALSE, usesOk |-> 0,
    dbFault |-> "none", headers |-> 0 ]

\* the SqlClient programs before they start
NoStream ==
  [ st |-> "none", src |-> <<>>, faultAt |-> 0, chunk |-> <<>>, items |-> <<>>,
    exit |-> [tag |-> "None", cause |-> "none"] ]

SqIdle ==
  [ pc |-> "idle", hasTable |-> FALSE, table |-> <<>>, calls |-> 0, i |-> 0,
    op |-> [kind |-> "none", sql |-> "none", arg |-> 0],
    raw |-> [threw |-> FALSE, cause |-> "none", rows |-> <<>>],
    out |-> [tag |-> "None", cause |-> "none", value |-> <<>>],
    resp |-> [status |-> 0, body |-> <<>>],
    strm |-> NoStream ]

\* the click-stream program before it starts
MaxRuns == 2     \* runs of the onClick stream
MaxEvents == 2   \* events dispatched on the emitter
Runs == 1..MaxRuns

\* a run of the onClick stream that has not started
NoRun == [scope |-> "none", queue |-> <<>>, logged |-> <<>>, late |-> 0,
          finalizer |-> "none"]

\* the click-event program before anything ran: no listener on any target
EvIdle ==
  [ hasDocument |-> FALSE,
    listeners |-> [emitter |-> {}, document |-> {}],
    dispatched |-> 0,
    run |-> [k \in Runs |-> NoRun] ]

\* the server before Layer.launch
ServerInit ==
  /\ phase = "starting"
  /\ sqlState = "unbuilt"
  /\ dbState = "none"
  /\ dbOpens = 0
  /\ dbCloses = 0
  /\ expressState = "unbuilt"
  /\ listening = FALSE
  /\ outerFin = <<>>
  /\ closing = <<>>
  /\ setState = [i \in Routes |-> "none"]
  /\ req = [r \in Reqs |-> IdleReq]

Init ==
  /\ ServerInit
  /\ sq = SqIdle
  /\ ev = EvIdle

\* --------------------------------------------------------------- response
\* res.writeHead(code), called by `who` ("handler" or "hook")
WriteHead(s, code, who) ==
  [s EXCEPT !.headersSent = TRUE, !.statusCode = code, !.statusWrites = @ + 1,
            !.sentBy = who]

\* res.end()
End(s, who) == [s EXCEPT !.writableEnded = TRUE, !.endCalls = @ + 1, !.endedBy = who]

\* res.json(body), res.status(code).send(body), res.status(code).end()
Send(s, code) == End(WriteHead(s, code, "handler"), "handler")

\* ------------------------------------------------------------------- exit
IsSuccess(exit) == exit = "Success"
IsFailure(exit) == exit \in {"Fail", "Die", "Interrupt"}
\* variant: every failure counts as unhandled, interruption included
IsInterruptedOnlyNever(exit) == FALSE

\* Cause.isInterruptedOnly(exit.cause)
IsInterruptedOnly(exit) == exit = "Interrupt"

LogEntry(level, s, rt) ==
  [level |-> level, method |-> rt.method, path |-> rt.path, headers |-> s.headers]

\* variant: the two status codes exchanged
ExitStatusSwapped(exit) == IF IsSuccess(exit) THEN 500 ELSE 204

\* the status the hook writes: Exit.isSuccess(exit) ? 204 : 500
ExitStatus(exit) == IF IsSuccess(exit) THEN 204 ELSE 500

\* variant: the hook writes and ends without looking at the response
OnExitUnguarded(s, exit, rt) ==
  LET s2 == End(WriteHead(s, ExitStatus(exit), "hook"), "hook")
      s3 == IF IsFailure(exit) /\ ~IsInterruptedOnly(exit)
            THEN [s2 EXCEPT !.logs = Append(@, LogEntry("Warning", s2, rt))]
            ELSE s2
  IN [s3 EXCEPT !.hookRuns = @ + 1]

\* the callback of Effect.onExit in addRoute
OnExit(s, exit, rt) ==
  LET s1 == IF ~s.headersSent THEN WriteHead(s, ExitStatus(exit), "hook") ELSE s
      s2 == IF ~s1.writableEnded THEN End(s1, "hook") ELSE s1
      s3 == IF IsFailure(exit) /\ ~IsInterruptedOnly(exit)
            THEN [s2 EXCEPT !.logs = Append(@, LogEntry("Warning", s2, rt))]
            ELSE s2
  IN [s3 EXCEPT !.hookRuns = @ + 1]

\* variant: a hook that is skipped when the fiber is interrupted
TerminateUnlessInterrupted(s, exit, rt) ==
  IF exit = "Interrupt" THEN [s EXCEPT !.st = "done", !.exit = exit]
  ELSE [OnExit(s, exit, rt) EXCEPT !.st = "done", !.exit = exit]

\* the fiber of a request ends with `exit`: the onExit callback runs, then
\* the fiber is done
Terminate(s, exit, rt) ==
  [OnExit(s, exit, rt) EXCEPT !.st = "done", !.exit = exit]

\* ---------------------------------------------------------------- handler
\* One effect of the handler. f is the position of the resource operation
\* that faults in this run (0: none); a closed connection always faults.
\* dbFault records what the SqlError of the handler came from.
StepOp(s, rt, f, dbOpen) ==
  IF s.pc > Len(rt.prog) THEN Terminate(s, "Success", rt)
  ELSE
    LET op == rt.prog[s.pc]
        faults == (f = s.pc) \/ ~dbOpen
        e == [s EXCEPT !.dbFault = IF dbOpen THEN "fault" ELSE "closed"]
    IN CASE op = "use" ->
              IF faults THEN Terminate(e, "Fail", rt)
              ELSE [s EXCEPT !.pc = @ + 1, !.usesOk = @ + 1]
         [] op = "useCatch" ->
              IF faults
              THEN Terminate(
                     Send([e EXCEPT !.logs = Append(@, LogEntry("Error", e, rt))], 500),
                     "Fail", rt)
              ELSE [s EXCEPT !.pc = @ + 1, !.usesOk = @ + 1]
         [] op = "send" ->
              IF s.headersSent THEN Terminate(s, "Die", rt)
              ELSE [Send(s, 200) EXCEPT !.pc = @ + 1]
         [] op = "write" ->
              IF s.headersSent THEN [s EXCEPT !.pc = @ + 1]
              ELSE [WriteHead(s, 200, "handler") EXCEPT !.pc = @ + 1]
         [] op = "await" -> [s EXCEPT !.st = "suspended"]
         [] op = "never" -> [s EXCEPT !.st = "suspended"]
         [] op = "throw" -> Terminate(s, "Die", rt)
         [] op = "fail"  -> Terminate(s, "Fail", rt)

\* the fiber runs until it suspends or ends
RECURSIVE Run(_, _, _, _)
Run(s, rt, f, dbOpen) ==
  IF s.st # "running" THEN s
  ELSE Run(StepOp(s, rt, f, dbOpen), rt, f, dbOpen)

\* variant: an interrupt that also rewrites the outcome of a finished fiber
RaiseInterruptOverwrites(s) ==
  IF s.st = "suspended"
  THEN [s EXCEPT !.intr = TRUE, !.earlyCancel = @ \/ (~s.intr /\ ~s.resumed)]
  ELSE IF s.st = "done" THEN [s EXCEPT !.exit = "Interrupt"] ELSE s

\* fiber.unsafeInterruptAsFork(..): the signal is queued for a suspended
\* fiber and has no effect on a fiber that is done
RaiseInterrupt(s) ==
  IF s.st = "suspended"
  THEN [s EXCEPT !.intr = TRUE, !.earlyCancel = @ \/ (~s.intr /\ ~s.resumed)]
  ELSE s

\* variant: a failing fiber takes the other fibers of its FiberSet with it
SettleInterruptingSiblings(rq, r, s) ==
  [q \in Reqs |->
     IF q = r THEN s
     ELSE IF s.exit \in {"Fail", "Die"} /\ rq[q].st = "suspended"
          THEN [rq[q] EXCEPT !.intr = TRUE]
          ELSE rq[q]]

\* the runtime records the new state of fiber r; the other fibers of the
\* FiberSet are left alone whatever the exit of r is
Settle(rq, r, s) == [rq EXCEPT ![r] = s]

AnyFailed(rq) == \E q \in Reqs : rq[q].exit \in {"Fail", "Die"}

\* ---------------------------------------------------------------- startup
\* ExpressApp: express(), app.listen(3000) under acquireRelease
BuildExpressApp ==
  /\ phase = "starting"
  /\ expressState = "unbuilt"
  /\ expressState' = "built"
  /\ listening' = TRUE
  /\ outerFin' = Append(outerFin, "express")
  /\ UNCHANGED << phase, sqlState, dbState, dbOpens, dbCloses, closing, setState, req >>
  /\ UNCHANGED << sq, ev >>

\* variant: the release is registered only once the setup has succeeded
SqlClientBuildLeaky(outcome) ==
  CASE outcome = "acquireThrows" ->
         [sql |-> "failed", db |-> "none", opened |-> 0, closed |-> 0, fin |-> <<>>]
    [] outcome = "setupThrows" ->
         [sql |-> "failed", db |-> "open", opened |-> 1, closed |-> 0, fin |-> <<>>]
    [] outcome = "ok" ->
         [sql |-> "ready", db |-> "open", opened |-> 1, closed |-> 0, fin |-> <<"sql">>]

\* SqlClient: acquireRelease(new Sqlite, db.close), then the table setup.
\* A throw of new Sqlite registers no release; a throw of the setup fails
\* the construction and closes the service's scope, which runs the release.
SqlClientBuild(outcome) ==
  CASE outcome = "acquireThrows" ->
         [sql |-> "failed", db |-> "none", opened |-> 0, closed |-> 0, fin |-> <<>>]
    [] outcome = "setupThrows" ->
         [sql |-> "failed", db |-> "closed", opened |-> 1, closed |-> 1, fin |-> <<>>]
    [] outcome = "ok" ->
         [sql |-> "ready", db |-> "open", opened |-> 1, closed |-> 0, fin |-> <<"sql">>]

\* --------------------------------------------------------------- teardown
\* finalizers of the ExpressApp scope, last registered first: the FiberSet
\* of every route added so far, then the server
ExpressFinalizers(sets) ==
  LET n == Cardinality({i \in Routes : sets[i] # "none"})
  IN [j \in 1..n |-> [k |-> "set", i |-> n + 1 - j]] \o << [k |-> "server", i |-> 0] >>

Finalizer(tag, sets) ==
  IF tag = "express" THEN ExpressFinalizers(sets) ELSE << [k |-> "db", i |-> 0] >>

\* the finalizers the launch scope runs when it closes: reverse registration
RECURSIVE CloseOrder(_, _)
CloseOrder(fins, sets) ==
  IF fins = <<>> THEN <<>>
  ELSE CloseOrder(Tail(fins), sets) \o Finalizer(Head(fins), sets)

\* the release of the sqlite connection: db.close()
DbClose(g) == [g EXCEPT !.dbState = "closed", !.dbCloses = @ + 1]

\* variant: the release interrupts the fibers and does not wait for them
FiberSetNotAwaited(rq, i) == TRUE

\* the release of a FiberSet returns when the fibers it interrupted are done
FiberSetAwaited(rq, i) == \A r \in Reqs : rq[r].route = i => rq[r].st # "suspended"

\* the release of a FiberSet interrupts every fiber the set holds
InterruptAll(rq, i) ==
  [r \in Reqs |-> IF rq[r].route = i THEN RaiseInterrupt(rq[r]) ELSE rq[r]]

\* The closing scope runs its finalizers one after the other; it goes on
\* synchronously until a finalizer has to wait: a FiberSet for its fibers,
\* the server for the callback of server.close.
RECURSIVE Drain(_)
Drain(g) ==
  IF g.closing = <<>> THEN g
  ELSE
    LET h == Head(g.closing) IN
    CASE h.k = "db" -> Drain([DbClose(g) EXCEPT !.closing = Tail(@)])
      [] h.k = "set" ->
           IF g.setState[h.i] = "open"
           THEN LET rq == InterruptAll(g.req, h.i) IN
                IF FiberSetAwaited(rq, h.i)
                THEN Drain([g EXCEPT !.setState[h.i] = "closed", !.closing = Tail(@)])
                ELSE [g EXCEPT !.setState[h.i] = "closing", !.req = rq]
           ELSE IF FiberSetAwaited(g.req, h.i)
                THEN Drain([g EXCEPT !.setState[h.i] = "closed", !.closing = Tail(@)])
                ELSE g
      [] h.k = "server" ->
           IF g.listening THEN [g EXCEPT !.listening = FALSE]
           ELSE Drain([g EXCEPT !.closing = Tail(@)])

Globals ==
  [closing |-> closing, setState |-> setState, req |-> req, dbState |-> dbState,
   dbCloses |-> dbCloses, listening |-> listening]

\* the scope goes on closing from g
Closes(g) ==
  LET d == Drain(g) IN
  /\ closing' = d.closing
  /\ setState' = d.setState
  /\ req' = d.req
  /\ dbState' = d.dbState
  /\ dbCloses' = d.dbCloses
  /\ listening' = d.listening
  /\ phase' = IF d.closing = <<>> THEN "closed" ELSE "closing"

BuildSqlClient(outcome) ==
  /\ phase = "starting"
  /\ sqlState = "unbuilt"
  /\ LET b == SqlClientBuild(outcome) IN
       /\ sqlState' = b.sql
       /\ dbOpens' = dbOpens + b.opened
       /\ outerFin' = outerFin \o b.fin
       /\ IF b.sql = "failed"
          THEN Closes([Globals EXCEPT !.dbState = b.db, !.dbCloses = @ + b.closed,
                                      !.closing = CloseOrder(outerFin, setState)])
          ELSE /\ dbState' = b.db
               /\ dbCloses' = dbCloses + b.closed
               /\ UNCHANGED << phase, closing, listening, setState, req >>
  /\ UNCHANGED << expressState >>
  /\ UNCHANGED << sq, ev >>

\* Routes: the three addRoute calls, each makes its FiberSet runtime in the
\* ExpressApp scope and registers the express callback
BuildRoutes ==
  /\ phase = "starting"
  /\ expressState = "built"
  /\ sqlState = "ready"
  /\ setState' = [i \in Routes |-> "open"]
  /\ phase' = "serving"
  /\ UNCHANGED << sqlState, dbState, dbOpens, dbCloses, expressState, listening,
                  outerFin, closing, req >>
  /\ UNCHANGED << sq, ev >>

\* the launch is interrupted (runMain on a signal): its scope closes
BeginShutdown ==
  /\ phase \in {"starting", "serving"}
  /\ Closes([Globals EXCEPT !.closing = CloseOrder(outerFin, setState)])
  /\ UNCHANGED << sqlState, dbOpens, expressState, outerFin >>
  /\ UNCHANGED << sq, ev >>

\* the fibers of FiberSet i are done: its release returns
AwaitFiberSet(i) ==
  /\ phase = "closing"
  /\ Head(closing) = [k |-> "set", i |-> i]
  /\ setState[i] = "closing"
  /\ FiberSetAwaited(req, i)
  /\ Closes(Globals)
  /\ UNCHANGED << sqlState, dbOpens, expressState, outerFin >>
  /\ UNCHANGED << sq, ev >>

\* the callback of server.close(..): the release of the server returns
ServerClosed ==
  /\ phase = "closing"
  /\ Head(closing).k = "server"
  /\ ~listening
  /\ Closes(Globals)
  /\ UNCHANGED << sqlState, dbOpens, expressState, outerFin >>
  /\ UNCHANGED << sq, ev >>

\* --------------------------------------------------------------- requests
\* the express callback of addRoute: runFork(handler |> withSpan |> onExit),
\* then req.on("close", ..)
Request(r, i, f) ==
  /\ phase \in {"serving", "closing"}
  /\ listening
  /\ req[r].st = "idle"
  /\ IF r = 1 THEN TRUE ELSE req[r - 1].st # "idle"
  /\ setState[i] # "none"
  /\ LET s0 == [IdleReq EXCEPT !.route = i, !.headers = r,
                               !.afterFailure = AnyFailed(req)]
     IN IF setState[i] = "open"
        THEN req' = Settle(req, r, Run([s0 EXCEPT !.st = "running"],
                                       RouteTable[i], f, dbState = "open"))
        ELSE req' = [req EXCEPT ![r] = [s0 EXCEPT !.st = "rejected"]]
  /\ UNCHANGED << phase, sqlState, dbState, dbOpens, dbCloses, expressState,
                  listening, outerFin, closing, setState >>
  /\ UNCHANGED << sq, ev >>

\* variant: a resumed fiber that does not look at the queued interrupt
CanResumeIgnoringInterrupt(s, rt) ==
  /\ s.st = "suspended"
  /\ rt.prog[s.pc] = "await"

\* a suspended fiber may continue when no interrupt is queued for it
CanResume(s, rt) ==
  /\ s.st = "suspended"
  /\ ~s.intr
  /\ rt.prog[s.pc] = "await"

\* the awaited operation of request r completes and its fiber continues
Resume(r, f) ==
  /\ req[r].st = "suspended"
  /\ CanResume(req[r], RouteTable[req[r].route])
  /\ req' = Settle(req, r,
                   Run([req[r] EXCEPT !.st = "running", !.pc = @ + 1, !.resumed = TRUE],
                       RouteTable[req[r].route], f, dbState = "open"))
  /\ UNCHANGED << phase, sqlState, dbState, dbOpens, dbCloses, expressState,
                  listening, outerFin, closing, setState >>
  /\ UNCHANGED << sq, ev >>

\* the fiber of request r handles the queued interrupt signal
Interrupted(r) ==
  /\ req[r].st = "suspended"
  /\ req[r].intr
  /\ req' = Settle(req, r, Terminate(req[r], "Interrupt", RouteTable[req[r].route]))
  /\ UNCHANGED << phase, sqlState, dbState, dbOpens, dbCloses, expressState,
                  listening, outerFin, closing, setState >>
  /\ UNCHANGED << sq, ev >>

\* the listener of req.on("close", ..); closeFired counts its calls, 2 for
\* two or more
OnClose(s) ==
  [RaiseInterrupt(s) EXCEPT !.closeFired = IF @ = 0 THEN 1 ELSE 2]

Close(r) ==
  /\ req[r].st # "idle"
  /\ req' = [req EXCEPT ![r] = OnClose(req[r])]
  /\ UNCHANGED << phase, sqlState, dbState, dbOpens, dbCloses, expressState,
                  listening, outerFin, closing, setState >>
  /\ UNCHANGED << sq, ev >>

\* ------------------------------------------------------------------- spec
FaultAt(i) == IF i \in Routes THEN 0..Len(RouteTable[i].prog) ELSE {}

Next ==
  \/ BuildExpressApp
  \/ \E o \in {"ok", "acquireThrows", "setupThrows"} : BuildSqlClient(o)
  \/ BuildRoutes
  \/ \E r \in Reqs, i \in Routes : \E f \in FaultAt(i) : Request(r, i, f)
  \/ \E r \in Reqs : \E f \in FaultAt(req[r].route) : Resume(r, f)
  \/ \E r \in Reqs : Interrupted(r)
  \/ \E r \in Reqs : Close(r)
  \/ BeginShutdown
  \/ \E i \in Routes : AwaitFiberSet(i)
  \/ ServerClosed

Spec == Init /\ [][Next]_vars

\* ----------------------------------------------------------------- claims
Warnings(s) == SelectSeq(s.logs, LAMBDA e : e.level = "Warning")

Spawned(s) == s.st \in {"suspended", "done"}

\* the annotations addRoute gives the warning of request r
Annotated(e, r) ==
  /\ e.method = RouteTable[req[r].route].method
  /\ e.path = RouteTable[req[r].route].path
  /\ e.headers = r

\* C1: for every task forked by addRoute, whatever its exit (success,
\* failure, interruption) and however the "close" event interleaves with its
\* completion, the onExit hook has run exactly once when the task is done
\* and never before, and the response has then exactly one status line and
\* exactly one end.
C1_FinalizedExactlyOnce ==
  \A r \in Reqs :
    /\ req[r].hookRuns <= 1
    /\ req[r].st = "suspended" => req[r].hookRuns = 0
    /\ req[r].st = "done" =>
         /\ req[r].exit \in {"Success", "Fail", "Die", "Interrupt"}
         /\ req[r].hookRuns = 1
         /\ req[r].headersSent /\ req[r].statusWrites = 1
         /\ req[r].writableEnded /\ req[r].endCalls = 1

\* a task that completed by itself after a suspension, with the "close"
\* event fired, and a task the "close" event interrupted
C1_Witness ==
  /\ \E r \in Reqs : /\ req[r].exit = "Success" /\ req[r].resumed
                     /\ req[r].closeFired >= 1 /\ req[r].hookRuns = 1
  /\ \E r \in Reqs : /\ req[r].exit = "Interrupt" /\ req[r].closeFired >= 1
                     /\ req[r].hookRuns = 1

\* C2: a task that ends interrupted leaves no warning, a task that ends in
\* any other failure leaves exactly one warning, annotated with the method,
\* the path and the headers of its request, and a successful task leaves
\* none; no warning is written before the task ends.
C2_WarningsByCause ==
  \A r \in Reqs :
    /\ req[r].st # "done" => Len(Warnings(req[r])) = 0
    /\ req[r].st = "done" =>
         IF req[r].exit \in {"Fail", "Die"}
         THEN /\ Len(Warnings(req[r])) = 1
              /\ Annotated(Warnings(req[r])[1], r)
         ELSE Len(Warnings(req[r])) = 0

C2_Witness ==
  /\ \E r \in Reqs : req[r].exit = "Interrupt" /\ Len(Warnings(req[r])) = 0
  /\ \E r \in Reqs : req[r].exit \in {"Fail", "Die"} /\ Len(Warnings(req[r])) = 1

\* C3: a task that is interrupted before its handler sent a status gets no
\* fault status from the hook: the hook only ends the response.
C3_NoFaultStatusOnCancel ==
  \A r \in Reqs :
    (req[r].st = "done" /\ req[r].exit = "Interrupt" /\ req[r].sentBy # "handler")
      => (req[r].sentBy = "none" /\ req[r].statusCode # 500 /\ req[r].writableEnded)

\* C4: the release of a FiberSet returns only when every task registered in
\* it is done, and a task that never completes by itself is then done as
\* interrupted; once the scope is closed no task is running.
C4_ShutdownAwaitsTasks ==
  /\ \A r \in Reqs :
       (req[r].route \in Routes /\ setState[req[r].route] = "closed")
         => /\ req[r].st # "suspended"
            /\ (req[r].st = "done" /\ RouteTable[req[r].route].prog = <<"never">>)
                 => req[r].exit = "Interrupt"
  /\ phase = "closed" => \A r \in Reqs : req[r].st # "suspended"

\* the scope closed with every request a task that never completes
C4_Witness ==
  /\ phase = "closed"
  /\ \A r \in Reqs : /\ req[r].st = "done"
                     /\ RouteTable[req[r].route].prog = <<"never">>
                     /\ req[r].exit = "Interrupt"
                     /\ req[r].closeFired = 0

\* C5: the hook writes no second status and no second end: a response has
\* at most one status line and one end at any time, the hook writes a
\* status only when the handler sent none and ends only a stream the
\* handler left open.
C5_HookIdempotent ==
  \A r \in Reqs :
    /\ req[r].statusWrites <= 1
    /\ req[r].endCalls <= 1
    /\ req[r].sentBy = "hook" => req[r].hookRuns = 1
    /\ req[r].endedBy = "hook" => req[r].hookRuns = 1

\* a handler that failed after it had written a full response
C5_Witness ==
  \E r \in Reqs :
    /\ req[r].st = "done" /\ req[r].exit = "Die" /\ req[r].resumed
    /\ req[r].sentBy = "handler" /\ req[r].endedBy = "handler"
    /\ req[r].statusCode = 200 /\ req[r].hookRuns = 1

\* C6: when the task ends with no status sent by the handler, the hook
\* writes 204 on success and 500 on a failure other than interruption; a
\* handler that fails after a resource operation succeeded, with nothing
\* sent, gives one 500 response and one warning with the method and path.
C6_StatusByExit ==
  \A r \in Reqs :
    req[r].st = "done" =>
      /\ req[r].sentBy # "none"
      /\ (req[r].sentBy = "hook" /\ req[r].exit = "Success") => req[r].statusCode = 204
      /\ (req[r].sentBy = "hook" /\ req[r].exit \in {"Fail", "Die"})
           => req[r].statusCode = 500
      /\ (req[r].sentBy # "handler" /\ req[r].exit \in {"Fail", "Die"} /\ req[r].usesOk >= 1)
           => /\ req[r].statusCode = 500
              /\ req[r].statusWrites = 1
              /\ Len(Warnings(req[r])) = 1
              /\ Annotated(Warnings(req[r])[1], r)

\* the handler threw after its resource operation, and another ended in
\* success with nothing sent
C6_Witness ==
  /\ \E r \in Reqs : /\ req[r].exit = "Die" /\ req[r].usesOk = 1
                     /\ req[r].statusCode = 500 /\ req[r].sentBy = "hook"
  /\ \E r \in Reqs : /\ req[r].exit = "Success" /\ req[r].statusCode = 204
                     /\ req[r].sentBy = "hook"

\* C7: a "close" event that fires when the task is already done, or that
\* fires again, changes nothing of the request but the count of its
\* firings: outcome, response and log entries stay as they are.
C7_CloseIdempotent ==
  [][\A r \in Reqs :
       (/\ req'[r].closeFired # req[r].closeFired
        /\ (req[r].st = "done" \/ req[r].closeFired >= 1))
         => req'[r] = [req[r] EXCEPT !.closeFired = req'[r].closeFired]]_vars

\* the event fired twice on a task that had completed by itself
C7_Witness ==
  \E r \in Reqs : req[r].exit = "Success" /\ req[r].closeFired = 2

C9_FailureIsolated ==
  [][\A r \in Reqs :
       (req[r].exit = "none" /\ req'[r].exit \in {"Fail", "Die"})
         => /\ \A q \in Reqs \ {r} : req'[q] = req[q]
            /\ UNCHANGED << setState, phase, closing, listening >>]_vars

\* a request that arrived after another task had failed was forked, ran
\* past its suspension and completed
C9_Witness ==
  \E r, q \in Reqs :
    /\ req[r].exit \in {"Fail", "Die"}
    /\ req[q].afterFailure /\ req[q].resumed /\ req[q].exit = "Success"

\* C10: the connection is opened at most once and closed at most once, never
\* closed unless opened; it is not left open when the construction of the
\* service failed, nor when the scope is closed.
C10_DbClosedOnce ==
  /\ dbOpens <= 1
  /\ dbCloses <= dbOpens
  /\ (dbState = "open") = (dbOpens = 1 /\ dbCloses = 0)
  /\ sqlState = "failed" => (dbCloses = dbOpens /\ dbState # "open")
  /\ phase = "closed" => (dbCloses = dbOpens /\ dbState # "open")

\* the setup threw after the connection was opened
C10_Witness ==
  /\ sqlState = "failed" /\ dbOpens = 1 /\ dbCloses = 1 /\ dbState = "closed"

\* ======================================================================
\* SqlClient: use, query, stream over the sqlite connection, and the
\* programs that call them. A row is [id, name]; a name is a number (the
\* i of `User ${i}`). The table holds its rows in rowid order, the order in
\* which sqlite returns them for SELECT * on an INTEGER PRIMARY KEY table.
\* ======================================================================
MaxRows == 2      \* rows of the table in a session
MaxCalls == 4     \* calls of the client in a session
NumInserts == 30  \* for (let i = 0; i < 30; i++)

Create == "CREATE TABLE users (id INTEGER PRIMARY KEY, name TEXT)"
Insert == "INSERT INTO users (name) VALUES (?)"
SelectAll == "SELECT * FROM users"
SelectById == "SELECT * FROM users WHERE id = ?"
Malformed == "SELEC"

Statements == {Create, Insert, SelectAll, SelectById, Malformed}
Names == {0, 1}

\* the connection as the statements see it
Db(s) == [hasTable |-> s.hasTable, table |-> s.table]

\* stmt.reader: the statement returns rows
Reader(sql) == sql \in {SelectAll, SelectById}

\* db.prepare(sql) throws on a malformed statement, on a table that is
\* missing and on a table that is created twice
PrepareFault(sql, db) ==
  IF sql = Malformed THEN "syntax error"
  ELSE IF sql = Create
       THEN IF db.hasTable THEN "table users already exists" ELSE "none"
       ELSE IF db.hasTable THEN "none" ELSE "no such table: users"

\* stmt.all(...params): the rows, in rowid order
All(sql, arg, db) ==
  IF sql = SelectAll THEN db.table
  ELSE SelectSeq(db.table, LAMBDA row : row.id = arg)

\* the rowid sqlite gives to a new row
NextId(table) == IF table = <<>> THEN 1 ELSE table[Len(table)].id + 1

\* stmt.run(...params)
RunStmt(sql, arg, db) ==
  IF sql = Create THEN [hasTable |-> TRUE, table |-> <<>>]
  ELSE [db EXCEPT !.table = Append(@, [id |-> NextId(@), name |-> arg])]

Threw(cause, db) == [threw |-> TRUE, cause |-> cause, rows |-> <<>>, db |-> db]
Returned(rows, db) == [threw |-> FALSE, cause |-> "none", rows |-> rows, db |-> db]

\* variant: a mutation returns what stmt.run reports, the row it wrote
QueryOpRunResult(sql, arg, db, io) ==
  LET pf == PrepareFault(sql, db) IN
  IF pf # "none" THEN Threw(pf, db)
  ELSE IF io THEN Threw("disk I/O error", db)
  ELSE IF Reader(sql) THEN Returned(All(sql, arg, db), db)
  ELSE Returned(IF sql = Insert THEN <<[id |-> NextId(db.table), name |-> arg]>> ELSE <<>>,
                RunStmt(sql, arg, db))

\* the function query passes to use: prepare, then all(..) ?? [] for a
\* reader, run(..) and [] otherwise; io: the execution hits an I/O fault
QueryOp(sql, arg, db, io) ==
  LET pf == PrepareFault(sql, db) IN
  IF pf # "none" THEN Threw(pf, db)
  ELSE IF io THEN Threw("disk I/O error", db)
  ELSE IF Reader(sql) THEN Returned(All(sql, arg, db), db)
  ELSE Returned(<<>>, RunStmt(sql, arg, db))

\* variant: the function is run without a catch (Effect.sync)
UseUncaught(r) ==
  IF r.threw THEN [tag |-> "Die", cause |-> r.cause, value |-> <<>>]
  ELSE [tag |-> "Success", cause |-> "none", value |-> r.rows]

\* use: Effect.try({ try: () => f(db), catch: (cause) => new SqlError({ cause }) })
\* r is what f(db) did; "Fail" is the failure SqlError{cause}, "Die" a defect
Use(r) ==
  IF r.threw THEN [tag |-> "Fail", cause |-> r.cause, value |-> <<>>]
  ELSE [tag |-> "Success", cause |-> "none", value |-> r.rows]

\* the client state after use(f), where f(db) did r
AfterUse(s, kind, sql, arg, r) ==
  [s EXCEPT !.calls = @ + 1,
            !.op = [kind |-> kind, sql |-> sql, arg |-> arg],
            !.raw = [threw |-> r.threw, cause |-> r.cause, rows |-> r.rows],
            !.out = Use(r),
            !.hasTable = r.db.hasTable,
            !.table = r.db.table]

\* query(sql, ...params)
Query(s, sql, arg, io) == AfterUse(s, "query", sql, arg, QueryOp(sql, arg, Db(s), io))

\* use(f) for any f: it returns a value or throws any fault
Causes == {"TypeError", "disk I/O error"}
Values == {<<>>, <<[id |-> 1, name |-> 0]>>}
Outcomes(db) ==
  {Threw(c, db) : c \in Causes} \cup {Returned(v, db) : v \in Values}

\* the iterator of stmt.iterate(...params) pulled to its end: the rows it
\* yields, or the fault its next() throws at row faultAt (0: none). The
\* table is far below the chunk size of Stream.fromIterable, so one pull
\* of the stream drains the iterator.
IteratorChunkShort(src, faultAt) ==
  IF faultAt \in 1..Len(src) THEN Threw("disk I/O error", <<>>)
  ELSE Returned(SubSeq(src, 1, Len(src) - 1), <<>>)

IteratorChunk(src, faultAt) ==
  IF faultAt \in 1..Len(src) THEN Threw("disk I/O error", <<>>)
  ELSE Returned(src, <<>>)

\* the function stream passes to use: prepare, stmt.iterate(..) wrapped by
\* Stream.fromIterable; nothing is read from the table yet
StreamOp(sql, arg, db) ==
  LET pf == PrepareFault(sql, db) IN
  IF pf # "none" THEN Threw(pf, db) ELSE Returned(All(sql, arg, db), db)

\* stream(sql, ...params) run by a consumer: Stream.unwrap runs the use
\* effect; its failure is the failure of the stream
StreamOpen(s, sql, arg, faultAt) ==
  LET u == AfterUse(s, "stream", sql, arg, StreamOp(sql, arg, Db(s))) IN
  [u EXCEPT !.strm =
     IF u.out.tag = "Success"
     THEN [NoStream EXCEPT !.st = "open", !.src = u.out.value, !.faultAt = faultAt]
     ELSE [NoStream EXCEPT !.st = "failed",
                           !.exit = [tag |-> u.out.tag, cause |-> u.out.cause]]]

\* the stream pulls the iterator inside Effect.sync: a thrown fault is a
\* defect of the stream
StreamPulled(s) ==
  LET c == IteratorChunk(s.strm.src, s.strm.faultAt) IN
  [s EXCEPT !.strm =
     IF c.threw
     THEN [@ EXCEPT !.st = "failed", !.exit = [tag |-> "Die", cause |-> c.cause]]
     ELSE [@ EXCEPT !.st = "pulled", !.chunk = c.rows]]

\* the consumer takes the next item
StreamTaken(s) ==
  [s EXCEPT !.strm.items = Append(@, Head(s.strm.chunk)),
            !.strm.chunk = Tail(@)]

\* the consumer stops before the end (Stream.take)
StreamStopped(s) ==
  [s EXCEPT !.strm.st = "stopped", !.strm.exit = [tag |-> "Success", cause |-> "none"]]

\* the iterator is done and every item was taken
StreamEnded(s) ==
  [s EXCEPT !.strm.st = "ended", !.strm.exit = [tag |-> "Success", cause |-> "none"]]

StreamBusy(s) == s.strm.st \in {"open", "pulled"}

\* the program that runs the stream goes on when the stream is over
Continue(s) ==
  IF s.pc # "streaming" THEN s
  ELSE [s EXCEPT !.pc = IF s.strm.st = "ended" THEN "done"
                        ELSE IF s.strm.st = "failed" THEN "failed" ELSE @]

\* a JavaScript array is truthy, empty or not
Truthy(rows) == TRUE

\* GET /users/:id: query, if (!user) 404, else res.json(user); a failure of
\* the query ends the handler and the exit hook answers 500
GetUserById(s, id, io) ==
  LET u == AfterUse(s, "getUser", SelectById, id, QueryOp(SelectById, id, Db(s), io)) IN
  [u EXCEPT !.resp =
     IF u.out.tag # "Success" THEN [status |-> 500, body |-> <<>>]
     ELSE IF ~Truthy(u.out.value) THEN [status |-> 404, body |-> <<>>]
     ELSE [status |-> 200, body |-> u.out.value]]

Args(sql) ==
  IF sql = Insert THEN Names
  ELSE IF sql = SelectById THEN 1..(MaxRows + 1) ELSE {0}

SessionOpen == sq.pc = "session" /\ sq.calls < MaxCalls /\ ~StreamBusy(sq)

SqUse ==
  /\ SessionOpen
  /\ \E r \in Outcomes(Db(sq)) : sq' = AfterUse(sq, "use", "none", 0, r)
  /\ UNCHANGED << phase, sqlState, dbState, dbOpens, dbCloses, expressState,
                  listening, outerFin, closing, setState, req, ev >>

SqQuery ==
  /\ SessionOpen
  /\ \E sql \in Statements : \E arg \in Args(sql) : \E io \in BOOLEAN :
       /\ sql = Insert => Len(sq.table) < MaxRows
       /\ sq' = Query(sq, sql, arg, io)
  /\ UNCHANGED << phase, sqlState, dbState, dbOpens, dbCloses, expressState,
                  listening, outerFin, closing, setState, req, ev >>

SqGetUser ==
  /\ SessionOpen
  /\ \E id \in Args(SelectById) : \E io \in BOOLEAN : sq' = GetUserById(sq, id, io)
  /\ UNCHANGED << phase, sqlState, dbState, dbOpens, dbCloses, expressState,
                  listening, outerFin, closing, setState, req, ev >>

SqStream ==
  /\ SessionOpen
  /\ \E sql \in {SelectAll, SelectById, Malformed} : \E arg \in Args(sql) :
     \E faultAt \in 0..MaxRows :
       sq' = StreamOpen(sq, sql, arg, faultAt)
  /\ UNCHANGED << phase, sqlState, dbState, dbOpens, dbCloses, expressState,
                  listening, outerFin, closing, setState, req, ev >>

StreamPull ==
  /\ sq.strm.st = "open"
  /\ sq' = Continue(StreamPulled(sq))
  /\ UNCHANGED << phase, sqlState, dbState, dbOpens, dbCloses, expressState,
                  listening, outerFin, closing, setState, req, ev >>

StreamTake ==
  /\ sq.strm.st = "pulled" /\ sq.strm.chunk # <<>>
  /\ sq' = StreamTaken(sq)
  /\ UNCHANGED << phase, sqlState, dbState, dbOpens, dbCloses, expressState,
                  listening, outerFin, closing, setState, req, ev >>

StreamStop ==
  /\ sq.pc = "session"
  /\ sq.strm.st = "pulled" /\ sq.strm.chunk # <<>>
  /\ sq' = StreamStopped(sq)
  /\ UNCHANGED << phase, sqlState, dbState, dbOpens, dbCloses, expressState,
                  listening, outerFin, closing, setState, req, ev >>

StreamEnd ==
  /\ sq.strm.st = "pulled" /\ sq.strm.chunk = <<>>
  /\ sq' = Continue(StreamEnded(sq))
  /\ UNCHANGED << phase, sqlState, dbState, dbOpens, dbCloses, expressState,
                  listening, outerFin, closing, setState, req, ev >>

SqlInit == ServerInit /\ sq = [SqIdle EXCEPT !.pc = "session"] /\ ev = EvIdle

SqlNext ==
  \/ SqUse
  \/ SqQuery
  \/ SqGetUser
  \/ SqStream
  \/ StreamPull
  \/ StreamTake
  \/ StreamStop
  \/ StreamEnd

SqlSpec == SqlInit /\ [][SqlNext]_vars

\* ---------------------------------------------------------------- claims
Ids(table) == {table[k].id : k \in 1..Len(table)}

\* C11: whatever the function passed to use does, a fault it throws comes
\* back as the failure SqlError carrying that fault as its cause, never as a
\* defect, and a function that returns yields its own result.
C11_UseWrapsFaults ==
  sq.calls > 0 =>
    /\ sq.out.tag # "Die"
    /\ sq.raw.threw => sq.out.tag = "Fail" /\ sq.out.cause = sq.raw.cause
    /\ ~sq.raw.threw => sq.out.tag = "Success" /\ sq.out.value = sq.raw.rows

C11_Witness ==
  /\ sq.op.kind = "use" /\ sq.raw.threw /\ sq.raw.cause = "TypeError"
  /\ sq.out = [tag |-> "Fail", cause |-> "TypeError", value |-> <<>>]

\* C12: a fault thrown while the stream produces its rows, after the
\* statement was prepared, reaches the consumer as the failure SqlError and
\* not as a defect.
C12_RowFaultIsTyped ==
  (sq.op.kind = "stream" /\ sq.strm.st = "failed") => sq.strm.exit.tag = "Fail"

\* C13: a successful query of a mutating statement applies the mutation and
\* returns the empty sequence; a successful query of a reader returns the
\* matching rows of the table in table order and leaves the table as it was.
C13_QueryContract ==
  [][ (sq'.calls = sq.calls + 1 /\ sq'.op.kind = "query" /\ sq'.out.tag = "Success") =>
        LET sql == sq'.op.sql
            arg == sq'.op.arg IN
        /\ sql = SelectAll => sq'.out.value = sq.table /\ Db(sq') = Db(sq)
        /\ sql = SelectById =>
             /\ sq'.out.value = SelectSeq(sq.table, LAMBDA row : row.id = arg)
             /\ Db(sq') = Db(sq)
        /\ sql = Insert =>
             /\ sq'.out.value = <<>>
             /\ Len(sq'.table) = Len(sq.table) + 1
             /\ SubSeq(sq'.table, 1, Len(sq.table)) = sq.table
             /\ sq'.table[Len(sq'.table)].name = arg
             /\ sq'.table[Len(sq'.table)].id \notin Ids(sq.table)
        /\ sql = Create =>
             /\ sq'.out.value = <<>>
             /\ ~sq.hasTable /\ sq'.hasTable /\ sq'.table = <<>>
    ]_vars

C13_Witness ==
  /\ sq.op.kind = "query" /\ sq.op.sql = Insert /\ sq.out.tag = "Success"
  /\ sq.out.value = <<>> /\ Len(sq.table) = 2

\* C14: a stream over a query of N rows that is consumed to its end has
\* delivered exactly those N rows in order; a consumer that stops after
\* fewer than N items holds a prefix and the stream ends without error.
C14_StreamDelivers ==
  sq.op.kind = "stream" =>
    LET rows == All(sq.op.sql, sq.op.arg, Db(sq)) IN
    /\ sq.strm.st = "ended" =>
         sq.strm.items = rows /\ sq.strm.exit.tag = "Success"
    /\ sq.strm.st = "stopped" =>
         /\ Len(sq.strm.items) < Len(rows)
         /\ sq.strm.items = SubSeq(rows, 1, Len(sq.strm.items))
         /\ sq.strm.exit.tag = "Success"

C14_Witness ==
  /\ sq.op.kind = "stream" /\ sq.pc = "session"
  /\ sq.strm.st = "ended" /\ Len(sq.strm.items) = 2

\* C17: GET /users/:id answers 404 when no user of the table has the id, and
\* answers with the user's row otherwise.
C17_NotFoundIs404 ==
  (sq.op.kind = "getUser" /\ sq.out.tag = "Success") =>
    IF sq.op.arg \in Ids(sq.table)
    THEN /\ sq.resp.status = 200
         /\ Len(sq.resp.body) = 1 /\ sq.resp.body[1].id = sq.op.arg
    ELSE sq.resp.status = 404

\* ----------------------------------------------------- the usage program
\* create the table, insert the users one after the other, stream them all;
\* a failed yield* ends the program.

\* variant: the loop runs once more
LoopDoneInclusive(i) == ~(i <= NumInserts)

\* for (let i = 0; i < 30; i++): the loop is over
LoopDone(i) == ~(i < NumInserts)

UsageCreate ==
  /\ sq.pc = "create"
  /\ \E io \in BOOLEAN :
       LET s == Query(sq, Create, 0, io) IN
       sq' = [s EXCEPT !.pc = IF s.out.tag = "Success"
                               THEN IF LoopDone(0) THEN "stream" ELSE "insert"
                               ELSE "failed"]
  /\ UNCHANGED << phase, sqlState, dbState, dbOpens, dbCloses, expressState,
                  listening, outerFin, closing, setState, req, ev >>

UsageInsert ==
  /\ sq.pc = "insert"
  /\ \E io \in BOOLEAN :
       LET s == Query(sq, Insert, sq.i, io) IN
       sq' = IF s.out.tag = "Success"
             THEN [s EXCEPT !.i = @ + 1,
                            !.pc = IF LoopDone(sq.i + 1) THEN "stream" ELSE "insert"]
             ELSE [s EXCEPT !.pc = "failed"]
  /\ UNCHANGED << phase, sqlState, dbState, dbOpens, dbCloses, expressState,
                  listening, outerFin, closing, setState, req, ev >>

UsageStream ==
  /\ sq.pc = "stream"
  /\ \E faultAt \in 0..Len(sq.table) :
       sq' = Continue([StreamOpen(sq, SelectAll, 0, faultAt) EXCEPT !.pc = "streaming"])
  /\ UNCHANGED << phase, sqlState, dbState, dbOpens, dbCloses, expressState,
                  listening, outerFin, closing, setState, req, ev >>

UsageInit == ServerInit /\ sq = [SqIdle EXCEPT !.pc = "create"] /\ ev = EvIdle

UsageNext ==
  \/ UsageCreate
  \/ UsageInsert
  \/ UsageStream
  \/ StreamPull
  \/ StreamTake
  \/ StreamEnd

UsageSpec == UsageInit /\ [][UsageNext]_vars

\* C15: when the usage program has run to its end, the stream has delivered
\* exactly the 30 inserted rows, in ascending order of the primary key and
\* with no row twice.
C15_UsageStreamsThirty ==
  sq.pc = "done" =>
    LET items == sq.strm.items IN
    /\ Len(items) = NumInserts
    /\ \A j, k \in 1..Len(items) : j < k => items[j].id < items[k].id
    /\ \A j, k \in 1..Len(items) : j # k => items[j] # items[k]
    /\ {items[k].name : k \in 1..Len(items)} = 0..(NumInserts - 1)
    /\ items = sq.table

C15_Witness ==
  /\ sq.pc = "done" /\ sq.i = NumInserts
  /\ Len(sq.strm.items) = 30 /\ sq.strm.items[30].name = 29

\* ------------------------------------------- the routes and the connection
\* the routes of the source: GET /users, POST /users, GET /users/:id
SqlRoutes == {1, 2, 3}

\* the handler has a resource operation still to run
UsesLeft(s) ==
  /\ s.route \in Routes
  /\ \E k \in s.pc..Len(RouteTable[s.route].prog) :
       RouteTable[s.route].prog[k] \in {"use", "useCatch"}

\* C16: in every route handler of the source a SqlError is turned, inside
\* the handler, into a response with a fault status, and the task of the
\* request does not end in failure.
C16_SqlErrorRecovered ==
  \A r \in Reqs :
    (req[r].route \in SqlRoutes /\ req[r].st = "done" /\ req[r].dbFault # "none") =>
      /\ req[r].exit = "Success"
      /\ req[r].sentBy = "handler" /\ req[r].statusCode = 500

\* C18: no resource operation runs on the connection once it is closed, and
\* when the connection is closed no task that can still run one is left.
C18_NoUseAfterClose ==
  /\ \A r \in Reqs : req[r].dbFault # "closed"
  /\ dbState = "closed" =>
       \A r \in Reqs : req[r].st \in {"running", "suspended"} => ~UsesLeft(req[r])

\* ======================================================================
\* The click-event stream. A listener is named by the run of the stream
\* that created it (each run has its own onClick function).
\* ======================================================================
AddEventListener(ls, target, k) == [ls EXCEPT ![target] = @ \cup {k}]
RemoveEventListener(ls, target, k) == [ls EXCEPT ![target] = @ \ {k}]

\* Stream.asyncPush register: addFinalizer(..), then
\* emitter.addEventListener("click", onClick)
Register(e, k) ==
  [e EXCEPT !.run[k].scope = "open",
            !.listeners = AddEventListener(@, "emitter", k)]

\* the finalizer: document.removeEventListener("click", onClick); without a
\* global document the call throws a ReferenceError inside Effect.sync
Release(e, k) ==
  IF e.hasDocument
  THEN [e EXCEPT !.run[k].scope = "closed", !.run[k].queue = <<>>,
                 !.run[k].finalizer = "done",
                 !.listeners = RemoveEventListener(@, "document", k)]
  ELSE [e EXCEPT !.run[k].scope = "closed", !.run[k].queue = <<>>,
                 !.run[k].finalizer = "ReferenceError"]

\* onClick(event): emit.single(event); the queue of a closed scope takes
\* nothing
OnClick(rn, event) ==
  IF rn.scope = "open" THEN [rn EXCEPT !.queue = Append(@, event)]
  ELSE [rn EXCEPT !.late = @ + 1]

\* emitter.dispatchEvent(new Event("click")): every listener of the emitter
\* is called
DispatchEvent(e, event) ==
  [e EXCEPT !.dispatched = event,
            !.run = [k \in Runs |->
                       IF k \in e.listeners.emitter THEN OnClick(e.run[k], event)
                       ELSE e.run[k]]]

EvRun(k) ==
  /\ ev.run[k].scope = "none"
  /\ IF k = 1 THEN TRUE ELSE ev.run[k - 1].scope # "none"
  /\ ev' = Register(ev, k)
  /\ UNCHANGED << phase, sqlState, dbState, dbOpens, dbCloses, expressState,
                  listening, outerFin, closing, setState, req, sq >>

EvDispatch ==
  /\ ev.dispatched < MaxEvents
  /\ ev' = DispatchEvent(ev, ev.dispatched + 1)
  /\ UNCHANGED << phase, sqlState, dbState, dbOpens, dbCloses, expressState,
                  listening, outerFin, closing, setState, req, sq >>

\* Stream.runForEach(Effect.log): the next event of the queue is logged
EvLog(k) ==
  /\ ev.run[k].scope = "open" /\ ev.run[k].queue # <<>>
  /\ ev' = [ev EXCEPT !.run[k].logged = Append(@, Head(ev.run[k].queue)),
                      !.run[k].queue = Tail(@)]
  /\ UNCHANGED << phase, sqlState, dbState, dbOpens, dbCloses, expressState,
                  listening, outerFin, closing, setState, req, sq >>

\* the scope of the stream closes (the forked consumer is interrupted when
\* the program ends)
EvClose(k) ==
  /\ ev.run[k].scope = "open"
  /\ ev' = Release(ev, k)
  /\ UNCHANGED << phase, sqlState, dbState, dbOpens, dbCloses, expressState,
                  listening, outerFin, closing, setState, req, sq >>

EvInit ==
  /\ ServerInit
  /\ sq = SqIdle
  /\ \E d \in BOOLEAN : ev = [EvIdle EXCEPT !.hasDocument = d]

EvNext ==
  \/ \E k \in Runs : EvRun(k)
  \/ EvDispatch
  \/ \E k \in Runs : EvLog(k)
  \/ \E k \in Runs : EvClose(k)

EvSpec == EvInit /\ [][EvNext]_vars

\* C19: once the scope of a run of the click-event stream is closed, its
\* listener is no longer registered on the emitter it was added to, and no
\* event dispatched afterwards enters the stream.
C19_ListenerRemoved ==
  \A k \in Runs :
    ev.run[k].scope = "closed" =>
      /\ k \notin ev.listeners.emitter
      /\ ev.run[k].queue = <<>>

====
